---- MODULE Spec2Model ----
(***************************************************************************)
(* Feed scheduling and execution engine of the larvae feeding control      *)
(* panel (src/control_UI.py): RobotBackend (the task list, the one-second  *)
(* timer tick, the executor), the wells and plates whose states are        *)
(* captured in a task's snapshot, and the handlers of ControlPanel and     *)
(* MainWindow that drive the backend from the Qt event loop.               *)
(***************************************************************************)
EXTENDS Integers, Sequences, FiniteSets, TLC

\* ------------------------------------------------------------------ bounds
MaxTasks == 3        \* number of schedule_feed calls (uuid4 values drawn)
MaxTime == 1         \* schedule times are 0..MaxTime
MaxSnapshots == 1    \* feeds scheduled while the wells are being edited
MaxClock == MaxTime + 1   \* the wall clock runs 0..MaxClock, past every schedule time

\* ------------------------------------------------------- program constants
DISABLED == 0
MANUAL == 1
CALCULATED == 2
SliderMin == 0
SliderMax == 100

WellState == {DISABLED, MANUAL, CALCULATED}

\* Mutant: the cycle runs the other way round.
WellState_next_back(s) == (s + Cardinality(WellState) - 1) % Cardinality(WellState)

\* WellState.next: WellState((self.value + 1) % len(WellState))
WellState_next(s) == (s + 1) % Cardinality(WellState)

\* The plates MainWindow creates, scaled down: plate_id, rows, columns.
Plates == << [plate_id |-> 1, rows |-> 1, cols |-> 2],
             [plate_id |-> 2, rows |-> 1, cols |-> 1] >>

PlateIds == {Plates[k].plate_id : k \in 1..Len(Plates)}
PlateOf(pid) == CHOOSE k \in 1..Len(Plates) : Plates[k].plate_id = pid

\* The LarvaWell children of a plate, in creation order (row-major, rows and
\* columns counted from 0 as range() does).
WellKeys(pid) ==
  LET p == Plates[PlateOf(pid)]
  IN  [k \in 1..(p.rows * p.cols) |->
         [plate |-> pid, row |-> (k - 1) \div p.cols, col |-> (k - 1) % p.cols]]

AllWells == UNION {{WellKeys(pid)[k] : k \in DOMAIN WellKeys(pid)} : pid \in PlateIds}

\* The values the slider and the date edit hand to add_schedule.
SliderValues == {SliderMin, SliderMax}
Times == 0..MaxTime

NoItem == 0          \* no list item / no task id
TaskIds == 1..MaxTasks

VARIABLES
  clock,            \* QDateTime.currentDateTime()
  scheduled_feeds,  \* RobotBackend.scheduled_feeds: sequence of task records
  nextId,           \* the next uuid4 value (fresh-value generator)
  wells,            \* LarvaWell.state of every well
  list_widget,      \* MainWindow.schedule_list: the items' task ids, in row order
  menu,             \* the item whose context menu is open (menu.exec), or NoItem
  events,           \* what the backend did, in order: executor calls, raised
                    \* exceptions and feed_triggered emissions
  deleted,          \* ids for which delete_feed removed a task ("Deleted feed")
  tick,             \* where a check_schedule call in progress stands:
                    \* [pc, copy, i, now]; pc = "idle" between calls
  last,             \* the handler that ran last: [op, id, now, exc, from];
                    \* from = Len(events) when it started
  sorting           \* a schedule_feed call that is inside list.sort:
                    \* [pc, items, id, rebound]; pc = "idle" between calls

vars == <<clock, scheduled_feeds, nextId, wells, list_widget, menu, events,
          deleted, tick, last, sorting>>

\* ---------------------------------------------------------------- helpers
Range(s) == {s[i] : i \in DOMAIN s}
Ids(s) == {s[i].id : i \in DOMAIN s}

RemoveAt(s, k) == [i \in 1..(Len(s) - 1) |-> IF i < k THEN s[i] ELSE s[i + 1]]

\* list.remove(x): removes the first element equal to x (x is in s).
ListRemove(s, x) == RemoveAt(s, CHOOSE k \in DOMAIN s : s[k] = x /\ \A j \in 1..(k - 1) : s[j] # x)

\* Mutant: the new element goes before the elements with an equal key.
InsertByTime_before(sorted, x) ==
  LET k == Cardinality({i \in DOMAIN sorted : sorted[i].time < x.time})
  IN  SubSeq(sorted, 1, k) \o <<x>> \o SubSeq(sorted, k + 1, Len(sorted))

\* Mutant: the sort is in descending order of the key.
InsertByTime_desc(sorted, x) ==
  LET k == Cardinality({i \in DOMAIN sorted : sorted[i].time >= x.time})
  IN  SubSeq(sorted, 1, k) \o <<x>> \o SubSeq(sorted, k + 1, Len(sorted))

\* list.sort(key=lambda x: x['time']): a stable sort; an element goes after
\* every element whose key is not greater than its own.
InsertByTime(sorted, x) ==
  LET k == Cardinality({i \in DOMAIN sorted : sorted[i].time <= x.time})
  IN  SubSeq(sorted, 1, k) \o <<x>> \o SubSeq(sorted, k + 1, Len(sorted))

RECURSIVE SortByTime(_)
SortByTime(s) ==
  IF s = <<>> THEN <<>>
  ELSE InsertByTime(SortByTime(SubSeq(s, 1, Len(s) - 1)), s[Len(s)])

\* ----------------------------------------------------------- LarvaPlate
\* Mutant: every entry carries the state of the plate's first well.
get_snapshot_data_first(w, pid) ==
  [plate_id |-> pid,
   wells |-> [k \in DOMAIN WellKeys(pid) |->
                [row |-> WellKeys(pid)[k].row,
                 col |-> WellKeys(pid)[k].col,
                 state |-> w[WellKeys(pid)[1]]]]]

\* LarvaPlate.get_snapshot_data: the row, col and state of every well.
get_snapshot_data(w, pid) ==
  [plate_id |-> pid,
   wells |-> [k \in DOMAIN WellKeys(pid) |->
                [row |-> WellKeys(pid)[k].row,
                 col |-> WellKeys(pid)[k].col,
                 state |-> w[WellKeys(pid)[k]]]]]

\* ControlPanel.add_schedule, step 1: one snapshot per plate, in plate order.
full_snapshot(w) == [k \in DOMAIN Plates |-> get_snapshot_data(w, Plates[k].plate_id)]

\* LarvaPlate.set_plate_state: every well of the plate gets new_state.
set_plate_state(w, pid, new_state) ==
  [key \in AllWells |-> IF key.plate = pid THEN new_state ELSE w[key]]

\* LarvaWell.on_click: set_state(self.state.next()) on this well.
on_click(w, key) == [w EXCEPT ![key] = WellState_next(w[key])]

\* ControlPanel.change_all: set_plate_state on every plate.
change_all(w, new_state) == [key \in AllWells |-> new_state]

\* --------------------------------------------------------- RobotBackend
\* Mutant: the task is appended and the list is not sorted.
schedule_feed_nosort(feeds, task_id, datetime_obj, percentage, snapshot_data) ==
  Append(feeds,
    [id |-> task_id, time |-> datetime_obj, percent |-> percentage,
     snapshot |-> snapshot_data])

\* Mutant: the id is drawn once and every task gets it.
schedule_feed_fixedid(feeds, task_id, datetime_obj, percentage, snapshot_data) ==
  SortByTime(Append(feeds,
    [id |-> 1, time |-> datetime_obj, percent |-> percentage,
     snapshot |-> snapshot_data]))

\* RobotBackend.schedule_feed: build the task, append it, sort by time.
schedule_feed(feeds, task_id, datetime_obj, percentage, snapshot_data) ==
  SortByTime(Append(feeds,
    [id |-> task_id, time |-> datetime_obj, percent |-> percentage,
     snapshot |-> snapshot_data]))

\* Mutant: the comparison of the filter is inverted.
delete_feed_inverted(feeds, task_id) == SelectSeq(feeds, LAMBDA f : f.id = task_id)

\* Mutant: removal by position, the last task goes when the id is not found.
delete_feed_poplast(feeds, task_id) ==
  IF task_id \in Ids(feeds) THEN SelectSeq(feeds, LAMBDA f : f.id # task_id)
  ELSE SubSeq(feeds, 1, Len(feeds) - 1)

\* Mutant: the feeds sharing the time of the feed with the id are dropped.
delete_feed_bytime(feeds, task_id) ==
  SelectSeq(feeds, LAMBDA f :
    \A g \in Range(feeds) : g.id = task_id => f.time # g.time)

\* RobotBackend.delete_feed: keep only the feeds that do not match the id.
delete_feed(feeds, task_id) == SelectSeq(feeds, LAMBDA f : f.id # task_id)

\* What a call of RobotBackend.delete_feed returns: the method has no return
\* statement, so None whatever the list held.
delete_feed_returns(feeds, task_id) == "None"

\* Mutant: the item of the first row is taken.
remove_feed_by_id_first(items, task_id) ==
  IF task_id \in Range(items) THEN Tail(items) ELSE items

\* MainWindow.remove_feed_by_id: take the first item carrying the id.
remove_feed_by_id(items, task_id) ==
  IF task_id \in Range(items)
  THEN RemoveAt(items, CHOOSE k \in DOMAIN items :
                         items[k] = task_id /\ \A j \in 1..(k - 1) : items[j] # task_id)
  ELSE items

\* Mutant: a task is due only at its very time.
IsDue_equal(now, task) == now = task.time

\* Mutant: a task is due only after its time.
IsDue_strict(now, task) == now > task.time

\* The due test of check_schedule: now >= task['time'].
IsDue(now, task) == now >= task.time

\* What check_schedule does that others can see: the call of execute_robot,
\* an exception leaving the loop, the emit of feed_triggered; stored tells
\* whether the task was in scheduled_feeds at that moment.
ExecEv(task, feeds) ==
  [kind |-> "exec", id |-> task.id, task |-> task, stored |-> task \in Range(feeds)]
RaiseEv(task, what) == [kind |-> "raise", id |-> task.id, exc |-> what]
EmitEv(task_id, feeds) ==
  [kind |-> "emit", id |-> task_id, stored |-> task_id \in Ids(feeds)]

\* Mutant: the fired task is not removed from memory.
CheckTask_keeps(st, task, now, raises) ==
  IF ~(now >= task.time) THEN st
  ELSE [st EXCEPT !.events = Append(Append(st.events, ExecEv(task, st.feeds)),
                                    EmitEv(task.id, st.feeds)),
                  !.items = remove_feed_by_id(st.items, task.id)]

\* Mutant: feed_triggered is emitted before the robot is run.
CheckTask_emitfirst(st, task, now, raises) ==
  IF ~(now >= task.time) THEN st
  ELSE [st EXCEPT !.feeds = ListRemove(st.feeds, task),
                  !.events = Append(Append(st.events,
                                           EmitEv(task.id, ListRemove(st.feeds, task))),
                                    ExecEv(task, ListRemove(st.feeds, task))),
                  !.items = remove_feed_by_id(st.items, task.id)]

\* One pass of the loop body of check_schedule for one task of the copy.
\* st = [feeds, items, events, exc]; raises says whether execute_robot raises.
CheckTask(st, task, now, raises) ==
  IF ~IsDue(now, task) THEN st
  ELSE
    LET called == Append(st.events, ExecEv(task, st.feeds))  \* self.execute_robot(task)
    IN  IF raises
        THEN [st EXCEPT !.events = Append(called, RaiseEv(task, "ExecutorError")),
                        !.exc = "ExecutorError"]
        ELSE IF task \notin Range(st.feeds)                \* list.remove(x): x not in list
        THEN [st EXCEPT !.events = Append(called, RaiseEv(task, "ValueError")),
                        !.exc = "ValueError"]
        ELSE [st EXCEPT !.feeds = ListRemove(st.feeds, task),
                        !.events = Append(called, EmitEv(task.id, ListRemove(st.feeds, task))),
                        !.items = remove_feed_by_id(st.items, task.id)]

\* The loop of check_schedule over the copy, from position i; an exception
\* leaves the loop (and the slot). The state after a pass is bound once, as a
\* value, before the loop goes on.
RECURSIVE RunLoop(_, _, _, _, _)
RunLoop(st, copy, i, now, failing) ==
  IF i > Len(copy) THEN st
  ELSE CHOOSE result \in
         { IF after.exc # "none" THEN after
           ELSE RunLoop(after, copy, i + 1, now, failing) :
             after \in {CheckTask(st, copy[i], now, copy[i].id \in failing)} } : TRUE

\* RobotBackend.check_schedule as one slot call: read the clock, copy the
\* list, run the loop.
check_schedule(feeds, items, evs, now, failing) ==
  RunLoop([feeds |-> feeds, items |-> items, events |-> evs, exc |-> "none"],
          feeds, 1, now, failing)

\* -------------------------------------------------------------- the state
Idle == [pc |-> "idle", copy |-> <<>>, i |-> 1, now |-> 0]
NoSort == [pc |-> "idle", items |-> <<>>, id |-> NoItem, rebound |-> FALSE]

Init ==
  /\ clock = 0
  /\ scheduled_feeds = <<>>
  /\ nextId = 1
  /\ wells = [key \in AllWells |-> CALCULATED]
  /\ list_widget = <<>>
  /\ menu = NoItem
  /\ events = <<>>
  /\ deleted = {}
  /\ sorting = NoSort
  /\ tick = Idle
  /\ last = [op |-> "init", id |-> NoItem, now |-> 0, exc |-> "none", from |-> 0]

Ran(op, id) == [op |-> op, id |-> id, now |-> last.now, exc |-> "none", from |-> Len(events)]

\* The wall clock advances.
AdvanceClock ==
  /\ clock < MaxClock
  /\ clock' = clock + 1
  /\ UNCHANGED <<scheduled_feeds, nextId, wells, list_widget, menu, events, deleted, tick, last, sorting>>

\* ControlPanel.add_schedule: snapshot the plates, schedule_feed, add the item.
AddSchedule(times, percents) ==
  /\ menu = NoItem
  /\ nextId <= MaxTasks
  /\ \E t \in times, p \in percents :
       scheduled_feeds' = schedule_feed(scheduled_feeds, nextId, t, p, full_snapshot(wells))
  /\ list_widget' = Append(list_widget, nextId)
  /\ nextId' = nextId + 1
  /\ last' = Ran("add_schedule", nextId)
  /\ UNCHANGED <<clock, wells, menu, events, deleted, tick, sorting>>

add_schedule == AddSchedule(Times, SliderValues)

\* MainWindow.show_context_menu: the menu opens on an item and menu.exec
\* runs a nested event loop (timers keep firing).
show_context_menu ==
  /\ menu = NoItem
  /\ \E k \in DOMAIN list_widget : menu' = list_widget[k]
  /\ UNCHANGED <<clock, scheduled_feeds, nextId, wells, list_widget, events, deleted, tick, last, sorting>>

\* The menu closes without its action being triggered.
menu_dismiss ==
  /\ menu # NoItem
  /\ menu' = NoItem
  /\ UNCHANGED <<clock, scheduled_feeds, nextId, wells, list_widget, events, deleted, tick, last, sorting>>

\* RobotBackend.delete_feed as a call: the list is replaced, and the id is
\* reported deleted when the list got shorter.
DeleteFeed(task_id) ==
  /\ scheduled_feeds' = delete_feed(scheduled_feeds, task_id)
  /\ deleted' = IF Len(scheduled_feeds') < Len(scheduled_feeds)
                THEN deleted \cup {task_id} ELSE deleted

\* MainWindow.delete_item(item): delete_feed(id), then take the item's row
\* (row -1, nothing taken, when the item has left the list).
delete_item ==
  /\ menu # NoItem
  /\ DeleteFeed(menu)
  /\ list_widget' = remove_feed_by_id(list_widget, menu)
  /\ last' = Ran("delete_item", menu)
  /\ menu' = NoItem
  /\ UNCHANGED <<clock, nextId, wells, events, tick, sorting>>

\* QTimer.timeout -> RobotBackend.check_schedule; feed_triggered is connected
\* to MainWindow.remove_feed_by_id and runs inside the emit.
Timeout(failing) ==
  /\ tick.pc = "idle"
  /\ \E st \in {check_schedule(scheduled_feeds, list_widget, events, clock, failing)} :
      /\ scheduled_feeds' = st.feeds
      /\ list_widget' = st.items
      /\ events' = st.events
      /\ last' = [op |-> "check_schedule", id |-> NoItem, now |-> clock,
                  exc |-> st.exc, from |-> Len(events)]
      /\ UNCHANGED <<clock, nextId, wells, menu, deleted, tick, sorting>>

\* execute_robot as coded only prints; it is taken not to raise.
timer_timeout == Timeout({})

\* A click on a well.
well_click ==
  /\ menu = NoItem
  /\ \E key \in AllWells : wells' = on_click(wells, key)
  /\ UNCHANGED <<clock, scheduled_feeds, nextId, list_widget, menu, events, deleted, tick, last, sorting>>

\* One of the Calc / Man / Dis buttons of a plate.
plate_button ==
  /\ menu = NoItem
  /\ \E pid \in PlateIds, s \in WellState : wells' = set_plate_state(wells, pid, s)
  /\ UNCHANGED <<clock, scheduled_feeds, nextId, list_widget, menu, events, deleted, tick, last, sorting>>

\* One of the All Calc / All Manual / All Disable buttons.
all_button ==
  /\ menu = NoItem
  /\ \E s \in WellState : wells' = change_all(wells, s)
  /\ UNCHANGED <<clock, scheduled_feeds, nextId, list_widget, menu, events, deleted, tick, last, sorting>>

\* A caller's direct call of RobotBackend.schedule_feed (no list item is made).
ScheduleFeedCall(times, percents, snapshots) ==
  /\ nextId <= MaxTasks
  /\ \E t \in times, p \in percents, snap \in snapshots :
       scheduled_feeds' = schedule_feed(scheduled_feeds, nextId, t, p, snap)
  /\ nextId' = nextId + 1
  /\ last' = Ran("schedule_feed", nextId)
  /\ UNCHANGED <<clock, wells, list_widget, menu, events, deleted, tick, sorting>>

\* A caller's direct call of RobotBackend.delete_feed.
DeleteFeedCall(ids) ==
  /\ \E task_id \in ids :
       /\ DeleteFeed(task_id)
       /\ last' = Ran("delete_feed", task_id)
  /\ UNCHANGED <<clock, nextId, wells, list_widget, menu, events, tick, sorting>>

\* The percentages a caller other than the slider can pass.
Percentages == {SliderMin - 1, SliderMin, SliderMax, SliderMax + 50}

api_schedule_feed == ScheduleFeedCall(Times, Percentages, {<<>>, full_snapshot(wells)})
api_delete_feed == DeleteFeedCall(TaskIds)

\* execute_robot raises for the tasks in failing (its print of a non-ASCII
\* character to a stream that cannot encode it, or the driver calls it is to
\* hold); the number of events is capped.
MaxEvents == 2 * MaxTasks + 2
timer_timeout_failing ==
  /\ Len(events) < MaxEvents
  /\ \E failing \in SUBSET Ids(scheduled_feeds) : Timeout(failing)

\* check_schedule in steps, for callers on other threads: it reads the clock
\* and copies the list ...
tick_begin ==
  /\ tick.pc = "idle"
  /\ tick' = [pc |-> "loop", copy |-> scheduled_feeds, i |-> 1, now |-> clock]
  /\ last' = [op |-> "check_schedule", id |-> NoItem, now |-> clock,
              exc |-> "none", from |-> Len(events)]
  /\ UNCHANGED <<clock, scheduled_feeds, nextId, wells, list_widget, menu, events, deleted, sorting>>

\* ... and runs the loop body for one task of the copy at a time; the call
\* ends after the last one or with an exception.
tick_step ==
  /\ tick.pc = "loop"
  /\ IF tick.i > Len(tick.copy)
     THEN /\ tick' = Idle
          /\ UNCHANGED <<scheduled_feeds, list_widget, events, last>>
     ELSE LET st == CheckTask([feeds |-> scheduled_feeds, items |-> list_widget,
                               events |-> events, exc |-> "none"],
                              tick.copy[tick.i], tick.now, FALSE)
          IN  /\ scheduled_feeds' = st.feeds
              /\ list_widget' = st.items
              /\ events' = st.events
              /\ last' = [op |-> "check_schedule", id |-> NoItem, now |-> tick.now,
                          exc |-> st.exc, from |-> Len(events)]
              /\ tick' = IF st.exc # "none" THEN Idle ELSE [tick EXCEPT !.i = tick.i + 1]
  /\ UNCHANGED <<clock, nextId, wells, menu, deleted, sorting>>

conc_schedule_feed == ScheduleFeedCall(Times, {SliderMax}, {full_snapshot(wells)})
conc_delete_feed == DeleteFeedCall(Ids(scheduled_feeds))

\* schedule_feed in steps, for callers on other threads: the task is appended
\* and list.sort starts; while CPython sorts a list the list object is empty
\* to every reader (the key function is Python code, so other threads run
\* meanwhile) ...
sort_begin ==
  /\ sorting.pc = "idle"
  /\ nextId <= MaxTasks
  /\ \E t \in Times :
       sorting' = [pc |-> "sort", id |-> nextId, rebound |-> FALSE,
                   items |-> Append(scheduled_feeds,
                               [id |-> nextId, time |-> t, percent |-> SliderMax,
                                snapshot |-> full_snapshot(wells)])]
  /\ scheduled_feeds' = <<>>
  /\ nextId' = nextId + 1
  /\ UNCHANGED <<clock, wells, list_widget, menu, events, deleted, tick, last>>

\* ... and when the sort ends the sorted items are put back into that list
\* object, which is the backend's list unless the attribute was rebound
\* meanwhile; schedule_feed returns the id.
sort_end ==
  /\ sorting.pc = "sort"
  /\ scheduled_feeds' = IF sorting.rebound THEN scheduled_feeds
                        ELSE SortByTime(sorting.items)
  /\ sorting' = NoSort
  /\ last' = Ran("schedule_feed", sorting.id)
  /\ UNCHANGED <<clock, nextId, wells, list_widget, menu, events, deleted, tick>>

\* delete_feed from another thread, for an id that is not in the list being
\* sorted: it filters the list it reads and rebinds scheduled_feeds to the
\* new list.
race_delete_feed ==
  /\ \E task_id \in TaskIds \ Ids(sorting.items) :
       /\ DeleteFeed(task_id)
       /\ last' = Ran("delete_feed", task_id)
  /\ sorting' = [sorting EXCEPT !.rebound = (sorting.pc = "sort")]
  /\ UNCHANGED <<clock, nextId, wells, list_widget, menu, events, tick>>

\* The plates being edited while feeds are scheduled (for the present time)
\* and fired.
snap_schedule ==
  /\ nextId <= MaxSnapshots
  /\ AddSchedule({0}, {SliderMax})

\* The scheduling engine driven from the event loop: the operator schedules
\* and deletes feeds, the timer ticks, the clock advances.
Next ==
  \/ AdvanceClock
  \/ add_schedule
  \/ show_context_menu
  \/ menu_dismiss
  \/ delete_item
  \/ timer_timeout

Spec == Init /\ [][Next]_vars

\* RobotBackend's methods called directly, with any arguments.
NextAPI ==
  \/ AdvanceClock
  \/ api_schedule_feed
  \/ api_delete_feed
  \/ timer_timeout

SpecAPI == Init /\ [][NextAPI]_vars

\* The event loop with an executor that can raise.
NextFail ==
  \/ AdvanceClock
  \/ add_schedule
  \/ timer_timeout_failing

SpecFail == Init /\ [][NextFail]_vars

\* schedule_feed and delete_feed called while a tick is in progress.
NextConc ==
  \/ AdvanceClock
  \/ conc_schedule_feed
  \/ conc_delete_feed
  \/ tick_begin
  \/ tick_step

SpecConc == Init /\ [][NextConc]_vars

\* delete_feed called with any id: a pending one, one already fired or
\* cancelled, one never handed out.
NextCancel ==
  \/ AdvanceClock
  \/ conc_schedule_feed
  \/ api_delete_feed
  \/ timer_timeout

SpecCancel == Init /\ [][NextCancel]_vars

\* schedule_feed, delete_feed and the tick on threads of their own, without
\* a lock.
NextRace ==
  \/ AdvanceClock
  \/ sort_begin
  \/ sort_end
  \/ race_delete_feed
  \/ tick_begin
  \/ tick_step

SpecRace == Init /\ [][NextRace]_vars

\* The timer recurs forever (it is started in __init__ and never stopped) and
\* the wall clock advances.
live_schedule == AddSchedule(Times, {SliderMax})

NextLive ==
  \/ AdvanceClock
  \/ live_schedule
  \/ show_context_menu
  \/ menu_dismiss
  \/ delete_item
  \/ timer_timeout

SpecLive ==
  Init /\ [][NextLive]_vars /\ WF_vars(timer_timeout) /\ WF_vars(AdvanceClock)

\* The event loop with the wells being edited.
NextPlates ==
  \/ snap_schedule
  \/ timer_timeout
  \/ well_click
  \/ plate_button
  \/ all_button

SpecPlates == Init /\ [][NextPlates]_vars

\* ------------------------------------------------------------ observations
\* The events the last handler produced.
NewEvents == SubSeq(events, last.from + 1, Len(events))

ExecCount(evs, task_id) ==
  Cardinality({k \in DOMAIN evs : evs[k].kind = "exec" /\ evs[k].id = task_id})
EmitCount(evs, task_id) ==
  Cardinality({k \in DOMAIN evs : evs[k].kind = "emit" /\ evs[k].id = task_id})

Issued == 1..(nextId - 1)

\* C1: at-most-once firing. Over any sequence of add/delete/tick operations
\* the executor is invoked at most once per task id and at most one
\* feed_triggered(id) is emitted; a fired id is never fired by a later tick.
C1_AtMostOnce ==
  \A i \in Issued : ExecCount(events, i) <= 1 /\ EmitCount(events, i) <= 1

\* Witness: a task with the later time was fired by an earlier tick than a
\* task with the earlier time (one tick fires in time order), so a tick ran
\* after a firing, and each was fired once.
C1_Witness ==
  \E a, b \in DOMAIN events :
    /\ a < b
    /\ events[a].kind = "exec" /\ events[b].kind = "exec"
    /\ events[a].task.time > events[b].task.time
    /\ ExecCount(events, events[a].id) = 1 /\ EmitCount(events, events[a].id) = 1
    /\ ExecCount(events, events[b].id) = 1 /\ EmitCount(events, events[b].id) = 1

\* C2: cancellation correctness. A task that delete_feed removed while it
\* was pending (no tick in progress: handlers run one at a time) is out of
\* scheduled_feeds and no tick, at any clock value, executes it or emits
\* feed_triggered for it.
C2_CancelledNeverFires ==
  \A i \in deleted :
    /\ i \notin Ids(scheduled_feeds)
    /\ ExecCount(events, i) = 0
    /\ EmitCount(events, i) = 0

\* Witness: a task was deleted, and the last handler was a tick that ran
\* when the clock had passed every schedule time.
C2_Witness ==
  /\ deleted # {}
  /\ last.op = "check_schedule"
  /\ last.now = MaxClock

\* The tasks of the store that the events evs show executed / notified.
ExecutedIn(evs) == {evs[k].id : k \in {j \in DOMAIN evs : evs[j].kind = "exec"}}
NotifiedIn(evs) == {evs[k].id : k \in {j \in DOMAIN evs : evs[j].kind = "emit"}}

\* C3: a tick fires exactly the due set. A step that ends with a completed
\* tick at clock value now has executed once, notified once and removed every
\* task that was in the store with time <= now, and has neither executed nor
\* notified nor removed any task with time > now.  (A step that is not a tick
\* leaves the last tick's record in place; no task with time <= now is in the
\* store then and such a step emits nothing, so the formula reads the same
\* on it.)
C3_TickFiresDueSet ==
  [][ (last'.op = "check_schedule" /\ last'.exc = "none") =>
        LET now == last'.now
            new == SubSeq(events', Len(events) + 1, Len(events'))
        IN  \A k \in DOMAIN scheduled_feeds :
              LET task == scheduled_feeds[k]
              IN  IF task.time <= now
                  THEN /\ ExecCount(new, task.id) = 1
                       /\ EmitCount(new, task.id) = 1
                       /\ task \notin Range(scheduled_feeds')
                  ELSE /\ ExecCount(new, task.id) = 0
                       /\ EmitCount(new, task.id) = 0
                       /\ task \in Range(scheduled_feeds')
    ]_vars

\* Witness: the last tick fired a task whose time had come and left a task
\* whose time is still ahead in the store.
C3_Witness ==
  /\ last.op = "check_schedule"
  /\ \E k \in DOMAIN NewEvents :
       NewEvents[k].kind = "exec" /\ NewEvents[k].task.time <= last.now
  /\ \E k \in DOMAIN scheduled_feeds : scheduled_feeds[k].time > last.now

\* C4: ordering within a tick. Of two tasks fired by the same tick, the one
\* with the strictly earlier time is executed and notified before the other
\* is executed, whatever the order they were scheduled in.
C4_FireTimeOrder ==
  last.op = "check_schedule" =>
    \A a, b \in DOMAIN NewEvents :
      ( /\ NewEvents[a].kind = "exec" /\ NewEvents[b].kind = "exec"
        /\ NewEvents[a].task.time < NewEvents[b].task.time )
      => /\ a < b
         /\ \E e \in DOMAIN NewEvents :
              a < e /\ e < b /\ NewEvents[e].kind = "emit" /\ NewEvents[e].id = NewEvents[a].id

\* Witness: the last tick fired two tasks with different times of which the
\* earlier one was scheduled later, after a deletion.
C4_Witness ==
  /\ last.op = "check_schedule"
  /\ deleted # {}
  /\ \E a, b \in DOMAIN NewEvents :
       /\ NewEvents[a].kind = "exec" /\ NewEvents[b].kind = "exec"
       /\ NewEvents[a].task.time < NewEvents[b].task.time
       /\ NewEvents[a].id > NewEvents[b].id

\* C5: tie-breaking by insertion order. Of two tasks with equal time fired
\* by the same tick, the one scheduled first (the smaller id: ids are handed
\* out in call order) is executed and notified first.
C5_TieInsertionOrder ==
  last.op = "check_schedule" =>
    \A a, b \in DOMAIN NewEvents :
      ( /\ NewEvents[a].kind = "exec" /\ NewEvents[b].kind = "exec"
        /\ NewEvents[a].task.time = NewEvents[b].task.time
        /\ NewEvents[a].id < NewEvents[b].id )
      => /\ a < b
         /\ \E e \in DOMAIN NewEvents :
              a < e /\ e < b /\ NewEvents[e].kind = "emit" /\ NewEvents[e].id = NewEvents[a].id

\* Witness: the last tick fired two tasks with equal time, the first and the
\* last one scheduled, with a schedule_feed of an earlier time and its
\* delete_feed in between.
C5_Witness ==
  /\ last.op = "check_schedule"
  /\ deleted # {}
  /\ \E a, b \in DOMAIN NewEvents :
       /\ NewEvents[a].kind = "exec" /\ NewEvents[b].kind = "exec"
       /\ NewEvents[a].task.time = NewEvents[b].task.time
       /\ NewEvents[a].id + 1 < NewEvents[b].id
       /\ NewEvents[a].id + 1 \in deleted

\* C6: validation. schedule_feed rejects an intensity outside [0,100] and an
\* empty snapshot collection, so every task in the store has percent in
\* [0,100] and a non-empty snapshot sequence.
C6_StoreValidated ==
  \A k \in DOMAIN scheduled_feeds :
    /\ scheduled_feeds[k].percent \in 0..100
    /\ scheduled_feeds[k].snapshot # <<>>

\* C7: executor failure never causes a retry. A task whose executor call
\* raised is out of the store and is not executed again, and the tick that
\* met the failure has still processed the other due tasks.
C7_NoRetryOnFailure ==
  /\ \A k \in DOMAIN events :
       (events[k].kind = "raise" /\ events[k].exc = "ExecutorError")
       => /\ events[k].id \notin Ids(scheduled_feeds)
          /\ ExecCount(events, events[k].id) <= 1
  /\ last.op = "check_schedule"
       => \A k \in DOMAIN scheduled_feeds : scheduled_feeds[k].time > last.now

\* C8: cancel/tick race. A task that delete_feed removed after a tick copied
\* the list and before the tick reached it is skipped by the tick: the
\* executor is not invoked for it, nothing is emitted for it and no error is
\* raised.
C8_TickSkipsCancelled ==
  \A k \in DOMAIN events : events[k].id \notin deleted

\* A task id is settled when it is not in the store and was never handed
\* out, or was cancelled, or was fired: executed and notified.
Settled(i) ==
  /\ i \notin Ids(scheduled_feeds)
  /\ \/ i >= nextId
     \/ i \in deleted
     \/ i \in ExecutedIn(events) /\ i \in NotifiedIn(events)

\* C9: liveness. With the timer recurring and the clock advancing, every task
\* that is scheduled and not cancelled is eventually fired (executed, notified
\* and removed): no task id stays unsettled for ever; and a task leaves the
\* store only by being fired or cancelled.
C9_EventuallyFired ==
  /\ \A i \in TaskIds : []<>Settled(i)
  /\ [][ \A i \in TaskIds :
           (i \in Ids(scheduled_feeds) /\ i \notin Ids(scheduled_feeds'))
           => (i \in deleted' \/ i \in ExecutedIn(events')) ]_vars

\* Witness: a task scheduled for the last schedule time has been fired by a
\* tick after another task was cancelled.
C9_Witness ==
  /\ deleted # {}
  /\ \E k \in DOMAIN events :
       /\ events[k].kind = "exec"
       /\ events[k].task.time = MaxTime
       /\ events[k].id \in NotifiedIn(events)
       /\ events[k].id \notin Ids(scheduled_feeds)

\* The state of every well of every plate, as a snapshot must record it.
IsCopyOf(snapshot, w) ==
  /\ Len(snapshot) = Len(Plates)
  /\ \A k \in DOMAIN Plates :
       /\ snapshot[k].plate_id = Plates[k].plate_id
       /\ Len(snapshot[k].wells) = Plates[k].rows * Plates[k].cols
       /\ \A key \in AllWells :
            key.plate = Plates[k].plate_id
            => \E j \in DOMAIN snapshot[k].wells :
                 snapshot[k].wells[j] = [row |-> key.row, col |-> key.col, state |-> w[key]]

\* C10: snapshot immutability. The snapshot a task gets when it is scheduled
\* is a copy of every well's (row, col, state) of every plate at that time;
\* no step changes the snapshot of a stored task; and the task handed to the
\* executor carries the stored snapshot.
C10_SnapshotFrozen ==
  [][ /\ \A k \in DOMAIN scheduled_feeds' :
           LET task == scheduled_feeds'[k]
           IN  IF task.id \in Ids(scheduled_feeds)
               THEN \E j \in DOMAIN scheduled_feeds :
                      /\ scheduled_feeds[j].id = task.id
                      /\ scheduled_feeds[j].snapshot = task.snapshot
               ELSE IsCopyOf(task.snapshot, wells)
      /\ \A k \in (Len(events) + 1)..Len(events') :
           events'[k].kind = "exec"
           => \E j \in DOMAIN scheduled_feeds :
                /\ scheduled_feeds[j].id = events'[k].id
                /\ scheduled_feeds[j].snapshot = events'[k].task.snapshot
    ]_vars

\* Witness: a task has been executed with a snapshot that differs from the
\* wells as they are now, in a well of each plate.
C10_Witness ==
  \E k \in DOMAIN events :
    /\ events[k].kind = "exec"
    /\ ~IsCopyOf(events[k].task.snapshot, wells)
    /\ \A p \in DOMAIN Plates :
         \E j \in DOMAIN events[k].task.snapshot[p].wells :
           events[k].task.snapshot[p].wells[j].state
             # wells[[plate |-> Plates[p].plate_id,
                      row |-> events[k].task.snapshot[p].wells[j].row,
                      col |-> events[k].task.snapshot[p].wells[j].col]]

\* C11: cancel returns a boolean outcome. A call of delete_feed(id) returns
\* true when a task with that id was in the store (and the call removed it)
\* and false when the id was absent.
C11_CancelReturnsBool ==
  [][ (last'.op \in {"delete_item", "delete_feed"} /\ last' # last) =>
        delete_feed_returns(scheduled_feeds, last'.id)
          = IF last'.id \in Ids(scheduled_feeds) THEN "True" ELSE "False"
    ]_vars

\* C12: cancelling an absent id is a harmless no-op. delete_feed(id) for an
\* id not in the store (never scheduled, already fired, already cancelled)
\* raises nothing, emits nothing and leaves the store as it was; and
\* cancelling twice leaves the store as cancelling once does.
C12_CancelAbsentNoOp ==
  /\ [](\A task_id \in TaskIds :
          delete_feed(delete_feed(scheduled_feeds, task_id), task_id)
            = delete_feed(scheduled_feeds, task_id))
  /\ [][ (last'.op = "delete_feed" /\ last'.id \notin Ids(scheduled_feeds)) =>
           /\ scheduled_feeds' = scheduled_feeds
           /\ events' = events
           /\ deleted' = deleted
           /\ last'.exc = "none"
       ]_vars

\* Witness: the last call was delete_feed of an id that had already been
\* fired, made while other tasks were pending.
C12_Witness ==
  /\ last.op = "delete_feed"
  /\ last.id \in ExecutedIn(events)
  /\ scheduled_feeds # <<>>

\* C13: identifier uniqueness (uuid4 taken as a generator of fresh values).
\* The ids handed out are pairwise distinct: the store never holds two tasks
\* with one id, no two list items carry one id, and the id of a fired or
\* cancelled task is not handed out again, so no pending task carries it.
C13_UniqueIds ==
  /\ \A a, b \in DOMAIN scheduled_feeds :
       a # b => scheduled_feeds[a].id # scheduled_feeds[b].id
  /\ \A a, b \in DOMAIN list_widget : a # b => list_widget[a] # list_widget[b]
  /\ Ids(scheduled_feeds) \subseteq Issued
  /\ \A i \in Ids(scheduled_feeds) : i \notin deleted /\ ExecCount(events, i) = 0

\* Witness: two tasks are pending after another one was fired or cancelled.
C13_Witness ==
  /\ Len(scheduled_feeds) = 2
  /\ (deleted \cup ExecutedIn(events)) # {}

\* C14: the notification stream matches the firing. Every executor call that
\* completed is followed, before the next task is executed, by exactly one
\* feed_triggered of the same id; the emitted ids, in order, are the executed
\* ids, in order; no id is notified that was not executed.
C14_NotificationsMatchFiring ==
  /\ Len(events) % 2 = 0
  /\ \A k \in DOMAIN events :
       k % 2 = 1 =>
         /\ events[k].kind = "exec"
         /\ events[k + 1].kind = "emit"
         /\ events[k + 1].id = events[k].id
  /\ \A i \in TaskIds : EmitCount(events, i) = ExecCount(events, i)

\* Witness: one tick fired two tasks, with a task cancelled before it.
C14_Witness ==
  /\ last.op = "check_schedule"
  /\ Len(NewEvents) = 4
  /\ deleted # {}

\* The cycle of the well states, pair by pair.
CycleStep == {<<DISABLED, MANUAL>>, <<MANUAL, CALCULATED>>, <<CALCULATED, DISABLED>>}

\* C15: the well state cycle. WellState.next maps Disabled to Manual, Manual
\* to Calculated and Calculated to Disabled: it is defined on every state,
\* stays within the three states, is one-to-one and onto, and applied three
\* times gives the state back. A click on a well moves that well one step
\* along the cycle and leaves every other well as it was.
C15_WellStateCycle ==
  /\ [](/\ \A s \in WellState : <<s, WellState_next(s)>> \in CycleStep
        /\ \A s, t \in WellState : WellState_next(s) = WellState_next(t) => s = t
        /\ {WellState_next(s) : s \in WellState} = WellState
        /\ \A s \in WellState : WellState_next(WellState_next(WellState_next(s))) = s)
  /\ [][ well_click =>
           \E key \in AllWells :
             /\ <<wells[key], wells'[key]>> \in CycleStep
             /\ \A other \in AllWells \ {key} : wells'[other] = wells[other]
       ]_vars

\* Witness: the two wells of plate 1 are in different states, which only
\* clicks bring about, one of them Manual.
C15_Witness ==
  \E a, b \in AllWells :
    /\ a.plate = 1 /\ b.plate = 1
    /\ wells[a] = MANUAL
    /\ wells[b] # MANUAL

\* C16: remove before execute. When execute_robot(task) is called, and when
\* feed_triggered is emitted for it, the task is no longer in scheduled_feeds.
C16_RemovedBeforeExecute ==
  \A k \in DOMAIN events :
    events[k].kind \in {"exec", "emit"} => ~events[k].stored

\* C17: insertion is safe against concurrent ticks and cancels. Once
\* schedule_feed has returned an id, the task is in the store unless it has
\* been fired or cancelled, whatever tick or delete_feed of another id ran
\* while the call was in progress (looked at when no schedule_feed call is in
\* progress).
C17_InsertionNeverLost ==
  sorting.pc = "idle" =>
    \A i \in Issued :
      \/ i \in Ids(scheduled_feeds)
      \/ i \in deleted
      \/ ExecCount(events, i) > 0

\* C18: store ordering. After every completed schedule_feed, delete_feed and
\* check_schedule the tasks of scheduled_feeds are in non-decreasing order of
\* fire time, so the first one is an earliest pending task.
C18_StoreSorted ==
  /\ \A a, b \in DOMAIN scheduled_feeds :
       a < b => scheduled_feeds[a].time <= scheduled_feeds[b].time
  /\ scheduled_feeds # <<>> =>
       \A k \in DOMAIN scheduled_feeds : scheduled_feeds[1].time <= scheduled_feeds[k].time

\* Witness: after a delete_feed that removed a task, the store holds two
\* tasks of which the one scheduled later has the earlier time and comes first.
C18_Witness ==
  /\ last.op = "delete_item"
  /\ last.id \in deleted
  /\ Len(scheduled_feeds) = 2
  /\ scheduled_feeds[1].id > scheduled_feeds[2].id
  /\ scheduled_feeds[1].time < scheduled_feeds[2].time

\* C19: frame of the store operations. A stored task's id, time, percent and
\* snapshot never change; schedule_feed adds exactly one task (size +1) and
\* keeps every other task; delete_feed(id) removes the task with that id and
\* no other (size -1, or 0 when the id is absent); a tick removes exactly the
\* tasks it fires (size minus their number); nothing else touches the store.
C19_StoreFrame ==
  [][ LET old == Range(scheduled_feeds)
          new == Range(scheduled_feeds')
          fired == ExecutedIn(SubSeq(events', Len(events) + 1, Len(events')))
      IN  /\ \A task \in new : task.id \in Ids(scheduled_feeds) => task \in old
          /\ IF nextId' # nextId
             THEN /\ old \subseteq new
                  /\ {task.id : task \in new \ old} = {nextId}
                  /\ Len(scheduled_feeds') = Len(scheduled_feeds) + 1
             ELSE IF deleted' # deleted
             THEN /\ new \subseteq old
                  /\ {task.id : task \in old \ new} = {last'.id}
                  /\ Len(scheduled_feeds') = Len(scheduled_feeds) - 1
             ELSE IF events' # events
             THEN /\ new \subseteq old
                  /\ {task.id : task \in old \ new} = fired
                  /\ Len(scheduled_feeds') = Len(scheduled_feeds) - Cardinality(fired)
             ELSE scheduled_feeds' = scheduled_feeds
    ]_vars

\* Witness: the last tick fired two tasks and left the third, not yet due,
\* in the store.
C19_Witness ==
  /\ last.op = "check_schedule"
  /\ Len(NewEvents) = 4
  /\ Len(scheduled_feeds) = 1
  /\ scheduled_feeds[1].time > last.now

\* C20: the visible list mirrors the store. After every completed
\* add_schedule, delete_item and tick (its feed_triggered handled by
\* remove_feed_by_id) the ids attached to the items of the schedule list are
\* the ids of the tasks in scheduled_feeds, one item per pending task.
C20_ListMirrorsStore ==
  /\ Range(list_widget) = Ids(scheduled_feeds)
  /\ Len(list_widget) = Len(scheduled_feeds)
  /\ \A a, b \in DOMAIN list_widget : a # b => list_widget[a] # list_widget[b]

\* Witness: a task was fired and its item is gone, and the two remaining
\* items stand in another order than their tasks in the store.
C20_Witness ==
  /\ ExecutedIn(events) # {}
  /\ Len(list_widget) = 2
  /\ Len(scheduled_feeds) = 2
  /\ list_widget[1] = scheduled_feeds[2].id

====
